---- MODULE Spec2Model ----
(***************************************************************************)
(* gphotosuploader: the orchestrator (main), the Outcome Reporter          *)
(* (handleUploaderEvents), the Event Coalescer (handleFileChange and its   *)
(* debounce timers), the retry scan and the shutdown handshake, together   *)
(* with the Upload Worker Pool (utils.ConcurrentUploader) they drive.      *)
(*                                                                         *)
(* Time is counted in whole ticks.  A timer fires at its deadline: time    *)
(* does not pass an armed timer's deadline nor a started timer callback.   *)
(*                                                                         *)
(* Two library entry points are modelled on their own: orm.GetInstance     *)
(* (SpecOnce) and api.ScrapeNewAtToken (SpecScrape).                       *)
(***************************************************************************)
EXTENDS Naturals, Integers, FiniteSets, Sequences

\* ---------------------------------------------------------------- bounds
MaxTime == 4
MaxEvents == 2
MaxScriptLen == 3

\* ----------------------------------------------------- program constants
\* -eventDelay, in ticks
eventDelay == 2
\* -maxConcurrent
maxConcurrentUploads == 2

\* The paths of the model: two ordinary files and one matching -ignore.
Paths == {"a", "b", "x.tmp"}
patternsToIgnore == {"x.tmp"}

\* models.File.Status
FilePending == 0
FileSuccess == 1
FileFailed == 2
FileIgnored == 3
Statuses == {FilePending, FileSuccess, FileFailed, FileIgnored}
\* no FileRecord for the path: a value that is no status
NoRecord == FilePending - 1

\* fsnotify.Op
Ops == {"Create", "Write", "Remove", "Rename"}

Consumers == {"uploader", "fs"}

VARIABLES
    \* CLI arguments
    filesToUpload, reuploadFailed, directoriesToWatch, watchRecursively,
    \* positions of main, handleUploaderEvents, handleFileSystemEvents
    pcMain, pcUploaderEvents, pcFileSystemEvents,
    \* the clock and the file system
    now, fs,
    \* Status Store: path -> status or NoRecord
    records,
    \* Event Coalescer: the timers map, each timer's deadline, the started
    \* callbacks, the directories added to the watcher
    timers, deadline, callback, watched,
    \* Upload Worker Pool: tasks per path at each stage
    queued, ready, uploading,
    \* Statistics
    uploadedFilesCount, ignoredCount, errorsCount,
    \* observations (history), never read by the program
    obs,
    \* orm: the instance and once package variables, the position of each
    \* caller of GetInstance and what it returned, the calls made to
    \* gorm.Open and AutoMigrate, the process ended by a panic
    instance, once, getPc, got, opens, migrations, crashed,
    \* api: the home page request succeeds, the page (has it the script
    \* tag, the text of the token following the tag), the position of
    \* ScrapeNewAtToken and what it returned
    httpOk, page, scrapePc, scraped

config == <<filesToUpload, reuploadFailed, directoriesToWatch, watchRecursively>>
pcs == <<pcMain, pcUploaderEvents, pcFileSystemEvents>>
coalescer == <<timers, deadline, callback, watched>>
pool == <<queued, ready, uploading>>
stats == <<uploadedFilesCount, ignoredCount, errorsCount>>
storage == <<instance, once, getPc, got, opens, migrations, crashed>>
scraper == <<httpOk, page, scrapePc, scraped>>
vars == <<config, pcs, now, fs, records, coalescer, pool, stats, obs,
          storage, scraper>>

Zero == [p \in Paths |-> 0]

\* The process is alive: os.Exit ends every goroutine.
Running == pcMain # "exited"

\* checkIgnore: some pattern matches the path
checkIgnore(path) == path \in patternsToIgnore

\* ------------------------------------------------------------------ Init
InitObs ==
    [ nEvents |-> 0,
      \* time of the last write/create notification handled, per path
      lastWrite |-> [p \in Paths |-> -1],
      \* watcher enqueues since the current burst of notifications began
      burstEnq |-> Zero,
      \* time of the last watcher enqueue, per path
      enqTime |-> [p \in Paths |-> -1],
      \* Status Store deletions
      deletes |-> Zero,
      \* time of the last notification of any kind handled, per path, and
      \* what the current debounce window of the path has emitted so far
      lastEvent |-> [p \in Paths |-> -1],
      window |-> [p \in Paths |-> <<>>],
      \* pool: enqueues, outcomes, Upload Operation calls, Success writes,
      \* ignored outcomes, per path
      enq |-> Zero, outcomes |-> Zero, uploads |-> Zero,
      successWrites |-> Zero, ignored |-> Zero,
      \* first Upload Operation result per path
      firstUpload |-> [p \in Paths |-> "none"],
      \* dequeues that found the record already Success
      seenSuccess |-> Zero,
      \* handshake: stop signals of main received by each consumer, its
      \* acknowledgements received by main, messages passed between consumers
      stopsGot |-> [c \in Consumers |-> 0],
      acksGot |-> [c \in Consumers |-> 0],
      crossed |-> 0 ]

\* The command lines and initial stores of the model.  Every -upload name
\* is an existing file.
NoRecords == [p \in Paths |-> NoRecord]
SomeRecords == [p \in Paths |-> IF p = "a" THEN FileFailed
                                ELSE IF p = "b" THEN FileSuccess
                                ELSE FilePending]
RetryRecords == [p \in Paths |-> IF p = "a" THEN FileFailed
                                 ELSE IF p = "b" THEN FilePending
                                 ELSE FileSuccess]
\* a record left by an upload made before the path was ignored
IgnoredRecord == [p \in Paths |-> IF p = "x.tmp" THEN FileSuccess
                                  ELSE NoRecord]
Configs ==
    { \* watch only
      [files |-> {}, reupload |-> FALSE, watch |-> {"root"},
       recursive |-> TRUE, recs |-> NoRecords],
      \* upload one file, then watch without -watchRecursively
      [files |-> {"b"}, reupload |-> FALSE, watch |-> {"root"},
       recursive |-> FALSE, recs |-> IgnoredRecord],
      \* upload and retry, no watching
      [files |-> {"a", "b", "x.tmp"}, reupload |-> TRUE, watch |-> {},
       recursive |-> TRUE, recs |-> RetryRecords],
      [files |-> {"a", "b"}, reupload |-> FALSE, watch |-> {},
       recursive |-> TRUE, recs |-> SomeRecords],
      [files |-> {}, reupload |-> TRUE, watch |-> {},
       recursive |-> FALSE, recs |-> NoRecords] }

\* The goroutines that call orm.GetInstance: main (reuploadFailedFiles),
\* handleFileSystemEvents (handleFileChange) and a pool worker.
Callers == {"main", "fs", "worker"}

\* orm: nobody has called GetInstance yet.
StorageInit ==
    /\ instance = "nil"
    /\ once = "ready"
    /\ getPc = [c \in Callers |-> "idle"]
    /\ got = [c \in Callers |-> "none"]
    /\ opens = 0 /\ migrations = 0
    /\ crashed = FALSE

\* The characters of a script text: the equals sign, a complete JSON object
\* (one character stands for its whole text) and any other character.
Chars == {"=", "j", "x"}
Scripts == UNION {[1..n -> Chars] : n \in 0..MaxScriptLen}

\* api: the token was scraped before the uploads start.
ScraperDone ==
    /\ httpOk = TRUE
    /\ page = [tag |-> TRUE, script |-> <<"=", "j", "x">>]
    /\ scrapePc = "done"
    /\ scraped = "token"

Init ==
    /\ StorageInit
    /\ ScraperDone
    /\ \E c \in Configs :
          /\ filesToUpload = c.files
          /\ reuploadFailed = c.reupload
          /\ directoriesToWatch = c.watch
          /\ watchRecursively = c.recursive
          /\ records = c.recs
    /\ pcMain = "uploadArguments"
    /\ pcUploaderEvents = "select"
    /\ pcFileSystemEvents = "notStarted"
    /\ now = 0
    /\ fs = [p \in Paths |-> "file"]
    /\ timers = [p \in Paths |-> "none"]
    /\ deadline = Zero
    /\ callback = {}
    /\ watched = {}
    /\ queued = Zero /\ ready = Zero /\ uploading = Zero
    /\ uploadedFilesCount = 0 /\ ignoredCount = 0 /\ errorsCount = 0
    /\ obs = InitObs

\* ------------------------------------------------ handleUploaderEvents
\* The outcome channels are unbuffered: the pool's send and the select's
\* receive happen together, so each case below is the receiving half of the
\* pool step that emits the outcome.

\* case info := <-uploader.CompletedUploads
ReportCompleted ==
    /\ pcUploaderEvents = "select"
    /\ uploadedFilesCount' = uploadedFilesCount + 1
    /\ UNCHANGED <<ignoredCount, errorsCount>>

\* Mutant: the ignored case bumps the uploaded counter.
ReportIgnoredMiscounted ==
    /\ pcUploaderEvents = "select"
    /\ uploadedFilesCount' = uploadedFilesCount + 1
    /\ UNCHANGED <<ignoredCount, errorsCount>>

\* case info := <-uploader.IgnoredUploads
ReportIgnored ==
    /\ pcUploaderEvents = "select"
    /\ ignoredCount' = ignoredCount + 1
    /\ UNCHANGED <<uploadedFilesCount, errorsCount>>

\* case err := <-uploader.Errors
ReportError ==
    /\ pcUploaderEvents = "select"
    /\ errorsCount' = errorsCount + 1
    /\ UNCHANGED <<uploadedFilesCount, ignoredCount>>

\* ------------------------------------------------- Upload Worker Pool
\* EnqueueUpload for every path of S: non-blocking, accepted unconditionally
EnqueueUpload(S) ==
    /\ queued' = [p \in Paths |-> queued[p] + (IF p \in S THEN 1 ELSE 0)]
    /\ obs' = [obs EXCEPT !.enq = [p \in Paths |->
                              @[p] + (IF p \in S THEN 1 ELSE 0)]]

RECURSIVE Sum(_, _)
Sum(f, S) == IF S = {} THEN 0
             ELSE LET p == CHOOSE q \in S : TRUE IN f[p] + Sum(f, S \ {p})

InFlight == Sum(uploading, Paths)

\* Mutant: main hands over a limit that is one too large.
uploaderLimitOff == maxConcurrentUploads + 1

\* the limit main hands to utils.NewUploader
uploaderLimit == maxConcurrentUploads

\* the queue is empty and no upload is in flight
Drained == \A p \in Paths : queued[p] = 0 /\ ready[p] = 0 /\ uploading[p] = 0

\* Step 1 of a dequeued path: it is excluded, ignored(path) is emitted.
PoolExclude(p) ==
    /\ Running
    /\ queued[p] > 0
    /\ fs[p] # "file" \/ checkIgnore(p)
    /\ queued' = [queued EXCEPT ![p] = @ - 1]
    /\ ReportIgnored
    /\ obs' = [obs EXCEPT !.outcomes[p] = @ + 1, !.ignored[p] = @ + 1,
                          !.seenSuccess[p] =
                              @ + (IF records[p] = FileSuccess THEN 1 ELSE 0)]
    /\ UNCHANGED <<storage, scraper, config, pcs, now, fs, records, coalescer, ready, uploading>>

\* Step 2: the record is already Success, ignored(path) is emitted.
PoolDedup(p) ==
    /\ Running
    /\ queued[p] > 0
    /\ ~(fs[p] # "file" \/ checkIgnore(p))
    /\ records[p] = FileSuccess
    /\ queued' = [queued EXCEPT ![p] = @ - 1]
    /\ ReportIgnored
    /\ obs' = [obs EXCEPT !.outcomes[p] = @ + 1, !.ignored[p] = @ + 1,
                          !.seenSuccess[p] = @ + 1]
    /\ UNCHANGED <<storage, scraper, config, pcs, now, fs, records, coalescer, ready, uploading>>

\* Step 3: the path is marked Pending and waits for an upload slot.
PoolMarkPending(p) ==
    /\ Running
    /\ queued[p] > 0
    /\ ~(fs[p] # "file" \/ checkIgnore(p))
    /\ records[p] # FileSuccess
    /\ queued' = [queued EXCEPT ![p] = @ - 1]
    /\ records' = [records EXCEPT ![p] = FilePending]
    /\ ready' = [ready EXCEPT ![p] = @ + 1]
    /\ UNCHANGED <<storage, scraper, config, pcs, now, fs, coalescer, uploading, stats, obs>>

\* Step 4 begins: the Upload Operation is invoked, at most N at a time.
PoolStartUpload(p) ==
    /\ Running
    /\ ready[p] > 0
    /\ InFlight < uploaderLimit
    /\ ready' = [ready EXCEPT ![p] = @ - 1]
    /\ uploading' = [uploading EXCEPT ![p] = @ + 1]
    /\ obs' = [obs EXCEPT !.uploads[p] = @ + 1]
    /\ UNCHANGED <<storage, scraper, config, pcs, now, fs, records, coalescer, queued, stats>>

\* Step 5: the Upload Operation succeeded (the file must still be there).
PoolUploadSucceeded(p) ==
    /\ Running
    /\ uploading[p] > 0
    /\ fs[p] = "file"
    /\ uploading' = [uploading EXCEPT ![p] = @ - 1]
    /\ records' = [records EXCEPT ![p] = FileSuccess]
    /\ ReportCompleted
    /\ obs' = [obs EXCEPT !.outcomes[p] = @ + 1, !.successWrites[p] = @ + 1,
                          !.firstUpload[p] = IF @ = "none" THEN "ok" ELSE @]
    /\ UNCHANGED <<storage, scraper, config, pcs, now, fs, coalescer, queued, ready>>

\* Step 6: the Upload Operation failed.
PoolUploadFailed(p) ==
    /\ Running
    /\ uploading[p] > 0
    /\ uploading' = [uploading EXCEPT ![p] = @ - 1]
    /\ records' = [records EXCEPT ![p] = FileFailed]
    /\ ReportError
    /\ obs' = [obs EXCEPT !.outcomes[p] = @ + 1,
                          !.firstUpload[p] = IF @ = "none" THEN "failed" ELSE @]
    /\ UNCHANGED <<storage, scraper, config, pcs, now, fs, coalescer, queued, ready>>

\* ---------------------------------------------------------------- main
\* filepath.Walk over every -upload name: regular, non-ignored files
uploadArgumentsFiles ==
    /\ pcMain = "uploadArguments"
    /\ EnqueueUpload({p \in filesToUpload : fs[p] = "file" /\ ~checkIgnore(p)})
    /\ pcMain' = "reupload"
    /\ UNCHANGED <<storage, scraper, config, pcUploaderEvents, pcFileSystemEvents, now, fs,
                   records, coalescer, ready, uploading, stats>>

\* Mutant: the status condition is dropped and every record is returned.
NotSuccessDropped(recs) == {p \in Paths : recs[p] # NoRecord}

\* Connection.Not(models.File{Status: models.FileSuccess}).Find(&files):
\* gorm builds a struct condition from the non-zero fields only.
NotSuccess(recs) ==
    IF FileSuccess = 0
    THEN {p \in Paths : recs[p] # NoRecord}
    ELSE {p \in Paths : recs[p] # NoRecord /\ recs[p] # FileSuccess}

reuploadFailedFiles ==
    /\ pcMain = "reupload"
    /\ EnqueueUpload(IF reuploadFailed THEN NotSuccess(records) ELSE {})
    /\ pcMain' = "wait"
    /\ UNCHANGED <<storage, scraper, config, pcUploaderEvents, pcFileSystemEvents, now, fs,
                   records, coalescer, ready, uploading, stats>>

\* Mutant: main goes on without waiting for the pool to drain.
WaitUploadsCompletedEarly ==
    /\ pcMain = "wait"
    /\ pcMain' = IF directoriesToWatch # {} THEN "startWatch" ELSE "send1"
    /\ UNCHANGED <<storage, scraper, config, pcUploaderEvents, pcFileSystemEvents, now, fs,
                   records, coalescer, pool, stats, obs>>

\* uploader.WaitUploadsCompleted() returns, then main goes on to the watch
\* branch or straight to the stop sequence
WaitUploadsCompleted ==
    /\ pcMain = "wait"
    /\ Drained
    /\ pcMain' = IF directoriesToWatch # {} THEN "startWatch" ELSE "send1"
    /\ UNCHANGED <<storage, scraper, config, pcUploaderEvents, pcFileSystemEvents, now, fs,
                   records, coalescer, pool, stats, obs>>

\* Mutant: the watcher goroutine is started while main waits for the drain.
StartWatchingBeforeDrain ==
    /\ pcMain = "wait"
    /\ directoriesToWatch # {}
    /\ pcFileSystemEvents = "notStarted"
    /\ pcFileSystemEvents' = "select"
    /\ UNCHANGED <<storage, scraper, config, pcMain, pcUploaderEvents, now, fs, records,
                   coalescer, pool, stats, obs>>

\* go handleFileSystemEvents(...); startToWatch on each -watch directory
StartWatching ==
    /\ pcMain = "startWatch"
    /\ pcFileSystemEvents' = "select"
    /\ pcMain' = "waitSignal"
    /\ UNCHANGED <<storage, scraper, config, pcUploaderEvents, now, fs, records, coalescer,
                   pool, stats, obs>>

\* <-c : CTRL + C or SIGTERM
Interrupt ==
    /\ pcMain = "waitSignal"
    /\ pcMain' = "send1"
    /\ UNCHANGED <<storage, scraper, config, pcUploaderEvents, pcFileSystemEvents, now, fs,
                   records, coalescer, pool, stats, obs>>

\* log.Printf("Done ...") and os.Exit(0)
Exit ==
    /\ pcMain = "done"
    /\ pcMain' = "exited"
    /\ UNCHANGED <<storage, scraper, config, pcUploaderEvents, pcFileSystemEvents, now, fs,
                   records, coalescer, pool, stats, obs>>

\* ------------------------------------------- the stopHandler channel
\* stopHandler is unbuffered: a send and a receive happen together.
pcOf(c) == IF c = "uploader" THEN pcUploaderEvents ELSE pcFileSystemEvents

\* Mutant: handleUploaderEvents returns after its acknowledgement, as
\* handleFileSystemEvents does.
afterAckReturns(c) == "returned"

\* Where a consumer goes once its "exiting <- true" was received:
\* handleUploaderEvents' break leaves the select only and the for loop goes
\* on; handleFileSystemEvents returns.
afterAck(c) == IF c = "uploader" THEN "select" ELSE "returned"

\* The consumers' positions with c moved to q (and d to r).
SetPc(c, q) ==
    /\ pcUploaderEvents' = IF c = "uploader" THEN q ELSE pcUploaderEvents
    /\ pcFileSystemEvents' = IF c = "fs" THEN q ELSE pcFileSystemEvents

\* main: stopHandler <- true, taken by consumer c's "case <-exiting"
SendStop(c) ==
    /\ pcMain \in {"send1", "send2"}
    /\ pcOf(c) = "select"
    /\ pcMain' = IF pcMain = "send1" THEN "recv1" ELSE "recv2"
    /\ SetPc(c, "ack")
    /\ obs' = [obs EXCEPT !.stopsGot[c] = @ + 1]
    /\ UNCHANGED <<storage, scraper, config, now, fs, records, coalescer, pool, stats>>

\* consumer c: exiting <- true, taken by main's <-stopHandler
AckToMain(c) ==
    /\ pcMain \in {"recv1", "recv2"}
    /\ pcOf(c) = "ack"
    /\ pcMain' = IF pcMain = "recv1" THEN "send2" ELSE "done"
    /\ SetPc(c, afterAck(c))
    /\ obs' = [obs EXCEPT !.acksGot[c] = @ + 1]
    /\ UNCHANGED <<storage, scraper, config, now, fs, records, coalescer, pool, stats>>

\* consumer c: exiting <- true, taken by the other consumer's "case <-exiting"
AckToConsumer(c, d) ==
    /\ Running
    /\ c # d
    /\ pcOf(c) = "ack"
    /\ pcOf(d) = "select"
    /\ pcUploaderEvents' = IF c = "uploader" THEN afterAck(c) ELSE "ack"
    /\ pcFileSystemEvents' = IF c = "fs" THEN afterAck(c) ELSE "ack"
    /\ obs' = [obs EXCEPT !.crossed = @ + 1]
    /\ UNCHANGED <<storage, scraper, config, pcMain, now, fs, records, coalescer, pool,
                   stats>>

\* --------------------------------------------------- Event Coalescer
IsRemove(op) == op \in {"Remove", "Rename"}

\* Mutant: the record is deleted on every remove/rename, also when the map
\* holds a timer for the path.
handleFileChangeForgetsAlways(p, op, o) ==
    /\ IF timers[p] # "none"
       THEN LET cancelled == timers[p] = "armed" IN
            /\ timers' = [timers EXCEPT ![p] =
                             IF cancelled
                             THEN (IF IsRemove(op) THEN "stopped" ELSE "armed")
                             ELSE @]
            /\ deadline' = [deadline EXCEPT ![p] =
                             IF cancelled /\ ~IsRemove(op)
                             THEN now + eventDelay ELSE 0]
       ELSE IF ~IsRemove(op)
       THEN /\ timers' = [timers EXCEPT ![p] = "armed"]
            /\ deadline' = [deadline EXCEPT ![p] = now + eventDelay]
       ELSE UNCHANGED <<timers, deadline>>
    /\ IF IsRemove(op) /\ ~checkIgnore(p)
       THEN /\ records' = [records EXCEPT ![p] = NoRecord]
            /\ obs' = [o EXCEPT !.deletes[p] = @ + 1,
                                 !.window[p] = Append(@, "forget")]
       ELSE /\ obs' = o
            /\ UNCHANGED records

\* Mutant: the record is deleted without asking checkIgnore.
handleFileChangeForgetsIgnored(p, op, o) ==
    IF timers[p] # "none"
    THEN LET cancelled == timers[p] = "armed" IN
         /\ timers' = [timers EXCEPT ![p] =
                          IF cancelled
                          THEN (IF IsRemove(op) THEN "stopped" ELSE "armed")
                          ELSE @]
         /\ deadline' = [deadline EXCEPT ![p] =
                          IF cancelled /\ ~IsRemove(op)
                          THEN now + eventDelay ELSE 0]
         /\ obs' = o
         /\ UNCHANGED records
    ELSE IF ~IsRemove(op)
    THEN /\ timers' = [timers EXCEPT ![p] = "armed"]
         /\ deadline' = [deadline EXCEPT ![p] = now + eventDelay]
         /\ obs' = o
         /\ UNCHANGED records
    ELSE /\ records' = [records EXCEPT ![p] = NoRecord]
         /\ obs' = [o EXCEPT !.deletes[p] = @ + 1,
                              !.window[p] = Append(@, "forget")]
         /\ UNCHANGED <<timers, deadline>>

\* handleFileChange(event): p is event.Name, op is event.Op; o is obs with
\* the notification already noted.
handleFileChange(p, op, o) ==
    IF timers[p] # "none"
    THEN \* cancelled := timer.Stop(): true only for a timer still armed
         LET cancelled == timers[p] = "armed" IN
         /\ timers' = [timers EXCEPT ![p] =
                          IF cancelled
                          THEN (IF IsRemove(op) THEN "stopped" ELSE "armed")
                          ELSE @]
         /\ deadline' = [deadline EXCEPT ![p] =
                          IF cancelled /\ ~IsRemove(op)
                          THEN now + eventDelay ELSE 0]
         /\ obs' = o
         /\ UNCHANGED records
    ELSE IF ~IsRemove(op)
    THEN \* timers[event.Name] = time.AfterFunc(eventDelay, ...)
         /\ timers' = [timers EXCEPT ![p] = "armed"]
         /\ deadline' = [deadline EXCEPT ![p] = now + eventDelay]
         /\ obs' = o
         /\ UNCHANGED records
    ELSE IF ~checkIgnore(p)
    THEN \* FirstOrCreate(&file) then Unscoped().Delete(&file)
         /\ records' = [records EXCEPT ![p] = NoRecord]
         /\ obs' = [o EXCEPT !.deletes[p] = @ + 1,
                              !.window[p] = Append(@, "forget")]
         /\ UNCHANGED <<timers, deadline>>
    ELSE /\ obs' = o
         /\ UNCHANGED <<records, timers, deadline>>

\* What the file system becomes when the notified operation happens.
FsAfter(p, op, kind) ==
    IF op = "Create" THEN [fs EXCEPT ![p] = kind]
    ELSE IF op = "Write" THEN fs
    ELSE [fs EXCEPT ![p] = "absent"]

\* The names inside the watched directory ("a" lies outside it), and those
\* the environment creates as directories.
WatchedNames == {"b", "x.tmp"}
DirNames == {"b", "x.tmp"}

\* The notification source can emit op for p.
FsCan(p, op, kind) ==
    /\ p \in WatchedNames
    /\ IF op = "Create"
       THEN fs[p] = "absent" /\ (kind = "dir" => p \in DirNames)
       ELSE IF op = "Write" THEN fs[p] = "file"
       ELSE fs[p] # "absent"

\* handleFileSystemEvents: case event := <-fsWatcher.Events
FileSystemEvent(p, op, kind) ==
    /\ Running
    /\ pcFileSystemEvents = "select"
    /\ obs.nEvents < MaxEvents
    /\ FsCan(p, op, kind)
    /\ fs' = FsAfter(p, op, kind)
    /\ LET newBurst == \/ obs.lastWrite[p] < 0
                       \/ now >= obs.lastWrite[p] + eventDelay
                       \/ fs[p] # "file"
           newWindow == \/ obs.lastEvent[p] < 0
                        \/ now > obs.lastEvent[p] + eventDelay
           n == [obs EXCEPT !.nEvents = @ + 1, !.lastEvent[p] = now,
                            !.window[p] = IF newWindow THEN <<>> ELSE @]
           o == IF IsRemove(op)
                THEN n
                ELSE [n EXCEPT !.lastWrite[p] = now,
                               !.burstEnq[p] = IF newBurst THEN 0 ELSE @]
       IN handleFileChange(p, op, o)
    /\ UNCHANGED <<storage, scraper, config, pcs, now, callback, watched, pool, stats>>

\* The runtime starts the AfterFunc callback on its own goroutine.
TimerFire(p) ==
    /\ Running
    /\ timers[p] = "armed"
    /\ deadline[p] <= now
    /\ timers' = [timers EXCEPT ![p] = "fired"]
    /\ deadline' = [deadline EXCEPT ![p] = 0]
    /\ callback' = callback \cup {p}
    /\ UNCHANGED <<storage, scraper, config, pcs, now, fs, records, watched, pool, stats, obs>>

\* Mutant: Walk adds every directory, ignored or not.
startToWatchIgnoredToo(p) ==
    IF watchRecursively
    THEN IF fs[p] = "dir" THEN watched \cup {p} ELSE watched
    ELSE watched \cup {p}

\* startToWatch(filePath): with -watchRecursively, Walk adds the
\* non-ignored directories; otherwise the path itself is added.
startToWatch(p) ==
    IF watchRecursively
    THEN IF fs[p] = "dir" /\ ~checkIgnore(p) THEN watched \cup {p} ELSE watched
    ELSE watched \cup {p}

\* Mutant: the callback removes its own entry from the timers map.
TimerCallbackDeletesEntry(p) ==
    /\ Running
    /\ p \in callback
    /\ callback' = callback \ {p}
    /\ timers' = [timers EXCEPT ![p] = "none"]
    /\ IF fs[p] = "absent"
       THEN UNCHANGED <<queued, watched, obs>>
       ELSE IF fs[p] # "dir" /\ ~checkIgnore(p)
       THEN /\ queued' = [queued EXCEPT ![p] = @ + 1]
            /\ obs' = [obs EXCEPT !.enq[p] = @ + 1, !.burstEnq[p] = @ + 1,
                                  !.enqTime[p] = now,
                                  !.window[p] = Append(@, "upload")]
            /\ UNCHANGED watched
       ELSE IF watchRecursively
       THEN /\ watched' = startToWatch(p)
            /\ UNCHANGED <<queued, obs>>
       ELSE UNCHANGED <<queued, watched, obs>>
    /\ UNCHANGED <<storage, scraper, config, pcs, now, fs, records, deadline, ready,
                   uploading, stats>>

\* The body of the AfterFunc callback.
TimerCallback(p) ==
    /\ Running
    /\ p \in callback
    /\ callback' = callback \ {p}
    /\ IF fs[p] = "absent"
       THEN \* os.Stat fails
            UNCHANGED <<queued, watched, obs>>
       ELSE IF fs[p] # "dir" /\ ~checkIgnore(p)
       THEN /\ queued' = [queued EXCEPT ![p] = @ + 1]
            /\ obs' = [obs EXCEPT !.enq[p] = @ + 1, !.burstEnq[p] = @ + 1,
                                  !.enqTime[p] = now,
                                  !.window[p] = Append(@, "upload")]
            /\ UNCHANGED watched
       ELSE IF watchRecursively
       THEN /\ watched' = startToWatch(p)
            /\ UNCHANGED <<queued, obs>>
       ELSE UNCHANGED <<queued, watched, obs>>
    /\ UNCHANGED <<storage, scraper, config, pcs, now, fs, records, timers, deadline, ready,
                   uploading, stats>>

\* The clock, counted from the start of watching.
Tick ==
    /\ Running
    /\ pcFileSystemEvents # "notStarted"
    /\ now < MaxTime
    /\ callback = {}
    /\ \A p \in Paths : timers[p] = "armed" => deadline[p] > now
    /\ now' = now + 1
    /\ LET closed(p) == now' > obs.lastEvent[p] + eventDelay IN
       \* a debounce window left behind is forgotten
       obs' = [obs EXCEPT
                 !.lastEvent = [p \in Paths |->
                                   IF closed(p) THEN -1 ELSE obs.lastEvent[p]],
                 !.window = [p \in Paths |->
                                IF closed(p) THEN <<>> ELSE obs.window[p]]]
    /\ UNCHANGED <<storage, scraper, config, pcs, fs, records, coalescer,
                   pool, stats>>

\* ------------------------------------------------------ specification
Next ==
    \/ uploadArgumentsFiles
    \/ reuploadFailedFiles
    \/ WaitUploadsCompleted
    \/ StartWatching
    \/ Interrupt
    \/ Exit
    \/ \E p \in Paths : PoolExclude(p)
    \/ \E p \in Paths : PoolDedup(p)
    \/ \E p \in Paths : PoolMarkPending(p)
    \/ \E p \in Paths : PoolStartUpload(p)
    \/ \E p \in Paths : PoolUploadSucceeded(p)
    \/ \E p \in Paths : PoolUploadFailed(p)
    \/ \E c \in Consumers : SendStop(c)
    \/ \E c \in Consumers : AckToMain(c)
    \/ \E c, d \in Consumers : AckToConsumer(c, d)
    \/ \E p \in Paths, op \in Ops, kind \in {"file", "dir"} :
          FileSystemEvent(p, op, kind)
    \/ \E p \in Paths : TimerFire(p)
    \/ \E p \in Paths : TimerCallback(p)
    \/ Tick

Spec == Init /\ [][Next]_vars

\* The scheduler lets a channel operation that has a partner happen, and
\* main run when it can.
HandshakeFairness ==
    /\ WF_vars(\E c \in Consumers : SendStop(c))
    /\ WF_vars(\E c \in Consumers : AckToMain(c))
    /\ WF_vars(\E c, d \in Consumers : AckToConsumer(c, d))
    /\ WF_vars(Exit)

SpecFair == Spec /\ HandshakeFairness

\* The retry scan on every store: the program starts with no -upload
\* names, any FileRecord per path and either setting of -reupload.
InitRetry ==
    /\ StorageInit
    /\ ScraperDone
    /\ filesToUpload = {}
    /\ reuploadFailed \in BOOLEAN
    /\ directoriesToWatch = {}
    /\ watchRecursively = TRUE
    /\ records \in [Paths -> Statuses \cup {NoRecord}]
    /\ pcMain = "uploadArguments"
    /\ pcUploaderEvents = "select"
    /\ pcFileSystemEvents = "notStarted"
    /\ now = 0
    /\ fs = [p \in Paths |-> "file"]
    /\ timers = [p \in Paths |-> "none"]
    /\ deadline = Zero
    /\ callback = {}
    /\ watched = {}
    /\ queued = Zero /\ ready = Zero /\ uploading = Zero
    /\ uploadedFilesCount = 0 /\ ignoredCount = 0 /\ errorsCount = 0
    /\ obs = InitObs

NextRetry ==
    \/ uploadArgumentsFiles
    \/ reuploadFailedFiles

SpecRetry == InitRetry /\ [][NextRetry]_vars

\* ------------------------------------------------------ orm.GetInstance
\* main with no arguments, before its first step.
ProgramIdle ==
    /\ filesToUpload = {}
    /\ reuploadFailed = FALSE
    /\ directoriesToWatch = {}
    /\ watchRecursively = TRUE
    /\ records = NoRecords
    /\ pcMain = "uploadArguments"
    /\ pcUploaderEvents = "select"
    /\ pcFileSystemEvents = "notStarted"
    /\ now = 0
    /\ fs = [p \in Paths |-> "file"]
    /\ timers = [p \in Paths |-> "none"]
    /\ deadline = Zero
    /\ callback = {}
    /\ watched = {}
    /\ queued = Zero /\ ready = Zero /\ uploading = Zero
    /\ uploadedFilesCount = 0 /\ ignoredCount = 0 /\ errorsCount = 0
    /\ obs = InitObs

program == <<config, pcs, now, fs, records, coalescer, pool, stats, obs>>

\* A caller enters GetInstance and calls once.Do.
GetInstance(c) ==
    /\ ~crashed
    /\ getPc[c] = "idle"
    /\ getPc' = [getPc EXCEPT ![c] = "Do"]
    /\ UNCHANGED <<program, scraper, instance, once, got, opens, migrations,
                   crashed>>

\* once.Do: the first caller takes the lock and runs the function.
OnceDo(c) ==
    /\ ~crashed
    /\ getPc[c] = "Do"
    /\ once = "ready"
    /\ once' = "running"
    /\ getPc' = [getPc EXCEPT ![c] = "new"]
    /\ UNCHANGED <<program, scraper, instance, got, opens, migrations,
                   crashed>>

\* once.Do: a caller that finds the function done (returned or panicked)
\* goes on; while it is running the caller waits for the lock.
OnceSkip(c) ==
    /\ ~crashed
    /\ getPc[c] = "Do"
    /\ once = "done"
    /\ getPc' = [getPc EXCEPT ![c] = "return"]
    /\ UNCHANGED <<program, scraper, instance, once, got, opens, migrations,
                   crashed>>

\* instance = &DB{}
NewInstance(c) ==
    /\ ~crashed
    /\ getPc[c] = "new"
    /\ instance' = "unset"
    /\ getPc' = [getPc EXCEPT ![c] = "Open"]
    /\ UNCHANGED <<program, scraper, once, got, opens, migrations, crashed>>

\* instance.Connection, err = gorm.Open(...): Connection is assigned
\* whether or not err is nil.
Open(c, ok) ==
    /\ ~crashed
    /\ getPc[c] = "Open"
    /\ opens' = opens + 1
    /\ instance' = IF ok THEN "open" ELSE "failed"
    /\ getPc' = [getPc EXCEPT ![c] = IF ok THEN "AutoMigrate" ELSE "panic"]
    /\ UNCHANGED <<program, scraper, once, got, migrations, crashed>>

\* panic("failed to connect database"): the deferred calls of once.Do mark
\* it done and release the lock while the panic unwinds.
Panic(c) ==
    /\ ~crashed
    /\ getPc[c] = "panic"
    /\ once' = "done"
    /\ getPc' = [getPc EXCEPT ![c] = "unwound"]
    /\ UNCHANGED <<program, scraper, instance, got, opens, migrations,
                   crashed>>

\* Nothing recovers the panic: the runtime ends the process.
Crash(c) ==
    /\ ~crashed
    /\ getPc[c] = "unwound"
    /\ crashed' = TRUE
    /\ UNCHANGED <<program, scraper, instance, once, getPc, got, opens,
                   migrations>>

\* instance.Connection.AutoMigrate(&models.File{}): its error is dropped,
\* the err tested next is still the nil of gorm.Open; the function returns.
AutoMigrate(c) ==
    /\ ~crashed
    /\ getPc[c] = "AutoMigrate"
    /\ migrations' = migrations + 1
    /\ once' = "done"
    /\ getPc' = [getPc EXCEPT ![c] = "return"]
    /\ UNCHANGED <<program, scraper, instance, got, opens, crashed>>

\* return instance
Return(c) ==
    /\ ~crashed
    /\ getPc[c] = "return"
    /\ got' = [got EXCEPT ![c] = instance]
    /\ getPc' = [getPc EXCEPT ![c] = "returned"]
    /\ UNCHANGED <<program, scraper, instance, once, opens, migrations,
                   crashed>>

InitOnce == ProgramIdle /\ StorageInit /\ ScraperDone

NextOnce ==
    \/ \E c \in Callers : GetInstance(c)
    \/ \E c \in Callers : OnceDo(c)
    \/ \E c \in Callers : OnceSkip(c)
    \/ \E c \in Callers : NewInstance(c)
    \/ \E c \in Callers, ok \in BOOLEAN : Open(c, ok)
    \/ \E c \in Callers : Panic(c)
    \/ \E c \in Callers : Crash(c)
    \/ \E c \in Callers : AutoMigrate(c)
    \/ \E c \in Callers : Return(c)

SpecOnce == InitOnce /\ [][NextOnce]_vars

\* ------------------------------------------------ api.ScrapeNewAtToken
\* strings.Index(script, "="): the 0-based index of the first "=", or -1
Index(script) ==
    IF \E i \in 1..Len(script) : script[i] = "="
    THEN (CHOOSE i \in 1..Len(script) :
             /\ script[i] = "="
             /\ \A j \in 1..(i - 1) : script[j] # "=") - 1
    ELSE -1

\* start and end of script[start:end] in findTokenInScript
SliceStart(script) == Index(script) + 1
SliceEnd(script) == Len(script) - 1

\* Go panics on a slice expression unless 0 <= start <= end <= len.
SliceInRange(script) ==
    /\ 0 <= SliceStart(script)
    /\ SliceStart(script) <= SliceEnd(script)
    /\ SliceEnd(script) <= Len(script)

\* json.NewDecoder(...).Decode(&object): the text has to start with a JSON
\* value; what follows the value is not read.
Decodes(text) == text # <<>> /\ text[1] = "j"

findTokenInScript(script) ==
    IF ~SliceInRange(script) THEN "panic"
    ELSE IF Decodes(SubSeq(script, SliceStart(script) + 1, SliceEnd(script)))
    THEN "token"
    ELSE "error"

\* page, err := ts.getHomePage()
getHomePage ==
    /\ scrapePc = "getHomePage"
    /\ IF httpOk
       THEN scrapePc' = "findScript" /\ UNCHANGED scraped
       ELSE scrapePc' = "done" /\ scraped' = "error"
    /\ UNCHANGED <<program, storage, httpOk, page>>

\* script, err := findScript(page): the text of the token that follows the
\* first <script data-id="_gd">, an error if the page has no such tag
findScript ==
    /\ scrapePc = "findScript"
    /\ IF ~page.tag
       THEN scrapePc' = "done" /\ scraped' = "error"
       ELSE scrapePc' = "findTokenInScript" /\ UNCHANGED scraped
    /\ UNCHANGED <<program, storage, httpOk, page>>

\* return findTokenInScript(script)
ScrapeToken ==
    /\ scrapePc = "findTokenInScript"
    /\ scraped' = findTokenInScript(page.script)
    /\ scrapePc' = "done"
    /\ UNCHANGED <<program, storage, httpOk, page>>

\* Every response: a failed request, a page without the script tag, a page
\* whose script tag is followed by any text (none at the end of the input).
InitScrape ==
    /\ ProgramIdle
    /\ StorageInit
    /\ httpOk \in BOOLEAN
    /\ page \in [tag : BOOLEAN, script : Scripts]
    /\ ~page.tag => page.script = <<>>
    /\ ~httpOk => ~page.tag
    /\ scrapePc = "getHomePage"
    /\ scraped = "none"

NextScrape ==
    \/ getHomePage
    \/ findScript
    \/ ScrapeToken

SpecScrape == InitScrape /\ [][NextScrape]_vars

\* ============================================================== claims
Watching == directoriesToWatch # {}

\* p is a regular, non-ignored file whose last write/create notification is
\* at least eventDelay old, and no timer or callback for p is outstanding.
Settled(p) ==
    /\ ~checkIgnore(p)
    /\ fs[p] = "file"
    /\ obs.lastWrite[p] >= 0
    /\ now >= obs.lastWrite[p] + eventDelay
    /\ timers[p] # "armed"
    /\ p \notin callback

\* C1 (Debounce): a burst of write/create notifications for a regular,
\* non-ignored file p, each less than eventDelay after the previous one,
\* yields exactly one upload enqueue of p, eventDelay after the last of them.
C1_Debounce ==
    \A p \in Paths :
        Settled(p) => /\ obs.burstEnq[p] = 1
                      /\ obs.enqTime[p] = obs.lastWrite[p] + eventDelay

\* A remove/rename notification for p is handled in this step.
RemoveHandled(p) == fs[p] # "absent" /\ fs'[p] = "absent"

\* C2 (Delete cancels pending upload scheduling): a remove/rename
\* notification for a non-ignored p handled while p's timer is armed stops the
\* timer (no enqueue from it) and deletes p's record exactly once.
C2_DeleteCancels ==
    [][\A p \in Paths :
          (RemoveHandled(p) /\ timers[p] = "armed" /\ ~checkIgnore(p))
          => /\ timers'[p] = "stopped"
             /\ obs'.deletes[p] = obs.deletes[p] + 1
             /\ records'[p] = NoRecord]_vars

\* C3 (No write/create notification is lost): every write/create
\* notification for a regular, non-ignored file p is followed by an upload
\* enqueue of p at or after eventDelay from it, also when an earlier timer for
\* p has fired or was cancelled.
C3_NoNotificationLost ==
    \A p \in Paths :
        Settled(p) => obs.enqTime[p] >= obs.lastWrite[p] + eventDelay

\* C4 (Forget invalidates dedup): once a remove/rename notification for a
\* non-ignored p has been handled, the Status Store holds no record for p.
C4_ForgetDeletesRecord ==
    [][\A p \in Paths :
          (RemoveHandled(p) /\ ~checkIgnore(p)) => records'[p] = NoRecord]_vars

\* C5 (Pairwise shutdown handshake): in watch mode main reaches the "Done"
\* line only after each consumer loop received one stop signal of main and
\* main received that consumer's acknowledgement; no message passes between
\* the consumers and handleFileSystemEvents has returned.
C5_PairwiseHandshake ==
    (Watching /\ pcMain \in {"done", "exited"})
    => /\ \A c \in Consumers : obs.stopsGot[c] = 1 /\ obs.acksGot[c] = 1
       /\ obs.crossed = 0
       /\ pcFileSystemEvents = "returned"

\* C6 (Exit after drain): when main calls os.Exit(0) after the watch loop was
\* stopped, no upload is queued or executing and no debounce timer is armed
\* or firing.
C6_ExitAfterDrain ==
    (Watching /\ pcMain = "exited")
    => /\ Drained
       /\ \A p \in Paths : timers[p] # "armed"
       /\ callback = {}

\* C7 (Drain barrier): WaitUploadsCompleted returns only when the queue and
\* the in-flight set are empty and every enqueue has produced its outcome.
C7_DrainBarrier ==
    [][(pcMain = "wait" /\ pcMain' # "wait")
       => /\ Drained
          /\ \A p \in Paths : obs.outcomes[p] = obs.enq[p]]_vars

C7_Witness ==
    /\ pcMain = "send1"
    /\ obs.enq["a"] = 2 /\ obs.outcomes["a"] = 2
    /\ obs.enq["b"] = 2 /\ obs.outcomes["b"] = 2

\* C8 (Bounded concurrency): at most maxConcurrentUploads Upload Operation
\* calls are in flight in every reachable state.
C8_BoundedConcurrency == InFlight <= maxConcurrentUploads

C8_Witness ==
    /\ InFlight = maxConcurrentUploads
    /\ \E p \in Paths : ready[p] > 0

\* A path is dequeued in this step.
Dequeued(p) == queued'[p] = queued[p] - 1

RetryCandidates == {p \in Paths : records[p] \in Statuses \ {FileSuccess}}

\* C10 (Retry scan correctness): reuploadFailedFiles enqueues exactly the
\* paths whose status is not Success, each once, nothing with the toggle
\* off, and touches no record.
C10_RetryScan ==
    [][(pcMain = "reupload" /\ pcMain' = "wait")
       => /\ \A p \in Paths :
               queued'[p] = queued[p]
                    + (IF reuploadFailed /\ p \in RetryCandidates THEN 1 ELSE 0)
          /\ records' = records]_vars

C10_Witness ==
    /\ pcMain = "wait"
    /\ reuploadFailed
    /\ records = RetryRecords
    /\ queued = [p \in Paths |-> IF p \in {"a", "b"} THEN 1 ELSE 0]

\* C13 (PendingTimer lifecycle): the timers map holds an entry for p only
\* while p's timer is armed and has not fired; an entry whose timer fired
\* or was cancelled is gone from the map.
C13_TimerLifecycle ==
    \A p \in Paths : timers[p] \in {"none", "armed"}

\* handleUploaderEvents has received a stop signal of main and main has
\* received its acknowledgement.
UploaderAcknowledged == obs.acksGot["uploader"] >= 1

\* C14 (Outcome Reporter stopped once acknowledged): once
\* handleUploaderEvents has acknowledged the stop signal it receives
\* nothing more, neither an outcome nor a message on the stop channel, and
\* the three counters keep the values main reads for the "Done" line.
C14_ReporterStopped ==
    [][UploaderAcknowledged
       => /\ stats' = stats
          /\ pcUploaderEvents' = pcUploaderEvents
          /\ obs'.stopsGot["uploader"] = obs.stopsGot["uploader"]]_vars

\* main has not yet returned from uploader.WaitUploadsCompleted().
BeforeDrainReturned == pcMain \in {"uploadArguments", "reupload", "wait"}

\* C12 (Startup ordering): every argument file and every retry candidate is
\* enqueued before main waits for the drain (nothing is enqueued while it
\* waits), and until WaitUploadsCompleted has returned no notification is
\* handled: no timer armed, no record deleted, no watcher enqueue.
C12_StartupOrdering ==
    /\ [](BeforeDrainReturned
          => /\ pcFileSystemEvents = "notStarted"
             /\ obs.nEvents = 0
             /\ callback = {}
             /\ \A p \in Paths : /\ timers[p] = "none"
                                 /\ obs.deletes[p] = 0
                                 /\ obs.enqTime[p] < 0)
    /\ [](pcMain = "wait"
          => \A p \in filesToUpload :
                (fs[p] = "file" /\ ~checkIgnore(p)) => obs.enq[p] >= 1)
    /\ [][pcMain = "wait" => obs'.enq = obs.enq]_vars

C12_Witness ==
    /\ pcMain = "wait"
    /\ reuploadFailed
    /\ obs.enq["a"] = 2
    /\ ~Drained

\* A debounce window of p: the notifications for p each at most eventDelay
\* after the previous one, up to the moment the settled path is acted on;
\* obs.window[p] lists what the window has emitted, in order.

\* C11 (Single emission per debounce window), as amended: the notifications
\* of one window yield at most one upload enqueue and at most one forget, and
\* the forget is never after the upload enqueue: a window emits nothing, one
\* upload, one forget, or a forget followed by an upload.
C11_SingleEmission ==
    \A p \in Paths :
        obs.window[p] \in {<<>>, <<"upload">>, <<"forget">>,
                           <<"forget", "upload">>}

\* A window in which a remove was handled at the moment the timer fired, and
\* one upload was emitted.
C11_Witness ==
    /\ obs.window["b"] = <<"upload">>
    /\ fs["b"] = "absent"
    /\ obs.lastEvent["b"] = obs.enqTime["b"]

\* C11 as stated: the notifications of one window yield at most one
\* emission, an upload enqueue or a forget, never both.
C11_SingleEmissionAsStated ==
    \A p \in Paths : Len(obs.window[p]) <= 1

\* The timer callback of p runs in this step.
CallbackRuns(p) == p \in callback /\ p \notin callback'

\* What a timer callback of p does besides: enqueue p when enq, add p to the
\* watcher when reg, and nothing else.
CallbackDoes(p, enq, reg) ==
    /\ queued' = [queued EXCEPT ![p] = IF enq THEN @ + 1 ELSE @]
    /\ watched' = IF reg THEN watched \cup {p} ELSE watched
    /\ reg => p \notin watched
    /\ records' = records

ArgumentsWalked == pcMain = "uploadArguments" /\ pcMain' = "reupload"

\* A notification is handled in this step.
NotificationHandled == obs'.nEvents # obs.nEvents

\* The timer of p fires in this step.
TimerFires(p) == timers[p] = "armed" /\ timers'[p] = "fired"

\* C16 (Exclusion leaves the Status Store unchanged): for a path matching an
\* ignore pattern, neither uploadArgumentsFiles nor a timer fire and its
\* callback nor a handled notification enqueues the path or creates, changes
\* or deletes its FileRecord.
C16_ExclusionFrame ==
    [][\A p \in Paths :
         (/\ checkIgnore(p)
          /\ \/ ArgumentsWalked
             \/ TimerFires(p)
             \/ CallbackRuns(p)
             \/ NotificationHandled)
         => /\ queued'[p] = queued[p]
            /\ obs'.enq[p] = obs.enq[p]
            /\ records'[p] = records[p]
            /\ obs'.deletes[p] = obs.deletes[p]]_vars

\* The ignored path, which has a record, was removed (no timer entry) and
\* created again as a directory, and its timer callback has run.
C16_Witness ==
    /\ records["x.tmp"] = FileSuccess
    /\ fs["x.tmp"] = "dir"
    /\ timers["x.tmp"] = "fired"
    /\ "x.tmp" \notin callback
    /\ obs.enq["x.tmp"] = 0
    /\ obs.deletes["x.tmp"] = 0

\* The keys of the timers map.  (timers[p] also carries the state of the
\* timer object, which the runtime changes when the timer fires.)
MapEntries == {p \in Paths : timers[p] # "none"}

\* C17 (Timer map ownership): the timers map is changed only by the one
\* handleFileSystemEvents loop, while it handles a notification; a step of
\* a timer callback or of main leaves the map as it is.
C17_MapOwnership ==
    [][/\ MapEntries' # MapEntries
          => /\ NotificationHandled
             /\ pcFileSystemEvents = "select"
             /\ pcFileSystemEvents' = "select"
       /\ \A p \in Paths : CallbackRuns(p) => MapEntries' = MapEntries
       /\ pcMain' # pcMain => MapEntries' = MapEntries]_vars

\* A callback is running on its goroutine while the loop has put another
\* entry into the map.
C17_Witness ==
    /\ callback = {"b"}
    /\ MapEntries = {"b", "x.tmp"}
    /\ timers["x.tmp"] = "armed"

\* C18 (Shutdown always completes): once main has started the stop
\* sequence it reaches os.Exit(0), in non-watch and in watch mode, whatever
\* the consumers and the pool do in between.
C18_ShutdownCompletes == (pcMain = "send1") ~> (pcMain = "exited")

\* main has exited after a handshake in which an acknowledgement went to
\* the other consumer instead of main.
C18_Witness ==
    /\ pcMain = "exited"
    /\ Watching
    /\ obs.crossed > 0

\* C19 (Storage handle singleton): whatever the number of concurrent
\* callers, gorm.Open and AutoMigrate are called at most once, every return
\* of GetInstance gives the one opened and migrated instance, never nil nor
\* one with Connection unset, and a failed open gives no caller a handle.
C19_Singleton ==
    /\ opens <= 1
    /\ migrations <= 1
    /\ \A c \in Callers :
          getPc[c] = "returned"
          => got[c] = "open" /\ opens = 1 /\ migrations = 1

\* C20 (Token scraping fails only by returning an error): the slice bounds
\* of findTokenInScript are in range for every script text, and
\* ScrapeNewAtToken ends with the token decoded from the text after the
\* first "=" less its last character, or with an error.
C20_FailsByError ==
    /\ scrapePc = "findTokenInScript" => SliceInRange(page.script)
    /\ scrapePc = "done"
       => \/ scraped = "error"
          \/ /\ scraped = "token"
             /\ page.tag
             /\ Decodes(SubSeq(page.script, Index(page.script) + 2,
                               Len(page.script) - 1))

====
